---- MODULE Spec2Model ----
(***************************************************************************)
(* Verification model of the OOP teaching repository:                      *)
(*   - Black-Scholes option pricing  (exercise/s1/s_1_bs_option.py and     *)
(*     its duplicate in theory/others/s3_extended.py),                     *)
(*   - FinancialAsset.update_last_quote (theory/others/s3_extended.py),    *)
(*   - the dict-backed List container (exercise/s2/...custom_list...).     *)
(*                                                                         *)
(* Python floats are modelled as decimal fixed-point numbers: the integer  *)
(* n stands for the real n / ONE.  Every arithmetic operator rounds to the *)
(* nearest representable value, as IEEE arithmetic does, only at a coarser *)
(* grain (1e-6 instead of 2^-53 relative).                                 *)
(***************************************************************************)
EXTENDS Integers, Sequences, FiniteSets, TLC

\* ------------------------------------------------------------------------
\* Fixed-point floats
\* ------------------------------------------------------------------------

\* The fixed-point unit: the integer ONE stands for the float 1.0.
ONE == 1000000

\* ONE = BASE * BASE; products are formed limb by limb to stay in 32 bits.
BASE == 1000

\* Number of decimal digits below the unit (ONE = 10^DIGITS).
DIGITS == 6

Abs(x) == IF x < 0 THEN -x ELSE x

Sgn(x) == IF x < 0 THEN -1 ELSE 1

\* |a| * |b| / ONE rounded to nearest, for magnitudes below 1000.0.
MulMag(a, b) ==
    LET a1 == a \div BASE
        a0 == a % BASE
        b1 == b \div BASE
        b0 == b % BASE
        m  == a1 * b0 + a0 * b1
        m1 == m \div BASE
        m0 == m % BASE
    IN  a1 * b1 + m1 + ((m0 * BASE + a0 * b0 + ONE \div 2) \div ONE)

\* float * float
FMul(a, b) == Sgn(a) * Sgn(b) * MulMag(Abs(a), Abs(b))

\* Long division: n more decimal digits of rem / b appended to q, then rounded.
RECURSIVE DivDigits(_, _, _, _)
DivDigits(q, rem, b, n) ==
    IF n = 0
    THEN q + (IF 2 * rem >= b THEN 1 ELSE 0)
    ELSE DivDigits(q * 10 + ((rem * 10) \div b), (rem * 10) % b, b, n - 1)

\* float / float (b # 0; Python raises ZeroDivisionError otherwise)
FDiv(a, b) ==
    Sgn(a) * Sgn(b) * DivDigits(Abs(a) \div Abs(b), Abs(a) % Abs(b), Abs(b), DIGITS)

\* floor(a * b / ONE) < x, decided exactly: the product is formed limb by
\* limb and the high limb is compared without forming the sum, so that the
\* test stays inside 32 bits for a, b up to SQRT_MAX.
MulFloorBelow(a, b, x) ==
    LET a1 == a \div BASE
        a0 == a % BASE
        b1 == b \div BASE
        b0 == b % BASE
        m  == a1 * b0 + a0 * b1
        m1 == m \div BASE
        m0 == m % BASE
        c  == (m0 * BASE + a0 * b0) \div ONE
    IN  a1 * b1 < x - m1 - c

\* The integer in lo..hi nearest to sqrt(x * ONE), by bisection: the largest
\* s with (s - 1/2)^2 <= x * ONE, that is with s * (s - 1) < x * ONE, that is
\* with floor(s * (s - 1) / ONE) < x; lo when no s above lo passes.
RECURSIVE SqrtBisect(_, _, _)
SqrtBisect(x, lo, hi) ==
    IF lo >= hi THEN lo
    ELSE LET mid == (lo + hi + 1) \div 2
         IN  IF MulFloorBelow(mid, mid - 1, x)
             THEN SqrtBisect(x, mid, hi)
             ELSE SqrtBisect(x, lo, mid - 1)

\* The largest square root a float of the model can have: math.sqrt of
\* (2^31 - 1) / ONE, rounded to nearest.
SQRT_MAX == 46340950

\* math.sqrt(x) rounded to nearest, as math.sqrt is, for x >= 0.  math.sqrt
\* raises ValueError on a negative argument: every caller passes a maturity,
\* which the parameter sets keep positive.
FSqrt(x) == SqrtBisect(x, 0, SQRT_MAX)

\* a / k for an integer k > 0, rounded to nearest.
RDiv(a, k) == Sgn(a) * ((Abs(a) + k \div 2) \div k)

\* Taylor series of exp: acc + term + term*x/k + term*x^2/(k(k+1)) + ...
\* summed until the terms vanish at the model's precision.
RECURSIVE ExpSeries(_, _, _, _)
ExpSeries(x, k, term, acc) ==
    IF term = 0 THEN acc
    ELSE ExpSeries(x, k + 1, RDiv(FMul(term, x), k), acc + term)

\* v * c^n
RECURSIVE MulPow(_, _, _)
MulPow(v, c, n) == IF n = 0 \/ v = 0 THEN v ELSE MulPow(FMul(v, c), c, n - 1)

\* exp(-y) for y >= 0: exp(-frac(y)) by series, times (1/e)^floor(y).
ExpNeg(y) ==
    LET invE == 367879      \* 1/e
    IN  MulPow(ExpSeries(-(y % ONE), 1, ONE, 0), invE, y \div ONE)

\* math.exp(x)
FExp(x) == IF x <= 0 THEN ExpNeg(-x) ELSE FDiv(ONE, ExpNeg(x))

\* z + z^3/3 + z^5/5 + ... (atanh), term = z^k, z2 = z^2.
RECURSIVE AtanhSeries(_, _, _, _)
AtanhSeries(z2, k, term, acc) ==
    IF term = 0 THEN acc
    ELSE AtanhSeries(z2, k + 2, FMul(term, z2), acc + RDiv(term, k))

\* math.log(x), x > 0 (math.log raises ValueError otherwise):
\* halve or double x into [0.5, 2], then ln x = 2 atanh((x - 1) / (x + 1)).
RECURSIVE FLog(_)
FLog(x) ==
    LET ln2 == 693147
    IN  IF x > 2 * ONE THEN FLog(RDiv(x, 2)) + ln2
        ELSE IF 2 * x < ONE THEN FLog(2 * x) - ln2
        ELSE LET z == FDiv(x - ONE, x + ONE)
             IN  2 * AtanhSeries(FMul(z, z), 1, z, 0)

\* scipy.stats.norm.pdf(x) = exp(-x^2 / 2) / sqrt(2 pi); from |x| = 40 on
\* (long before that, in fact) the density is below the model's grain.
NormPdf(x) ==
    LET invSqrt2Pi == 398942
        farOut == 40 * ONE
    IN  IF Abs(x) >= farOut THEN 0
        ELSE FMul(ExpNeg(RDiv(FMul(x, x), 2)), invSqrt2Pi)

\* The upper tail 1 - Phi(a) for a >= 0 (Abramowitz & Stegun 26.2.17,
\* absolute error below 7.5e-8, under the model's grain).
UpperTail(a) ==
    LET p  == 231642
        b1 == 319382
        b2 == -356564
        b3 == 1781478
        b4 == -1821256
        b5 == 1330274
        t  == FDiv(ONE, ONE + FMul(p, a))
        poly == FMul(t, b1 + FMul(t, b2 + FMul(t, b3 + FMul(t, b4 + FMul(t, b5)))))
    IN  FMul(NormPdf(a), poly)

\* scipy.stats.norm.cdf(x): like scipy's ndtr, the tail of |x| is computed
\* and reflected (y = 1 - y) for x > 0.
NormCdf(x) == IF x > 0 THEN ONE - UpperTail(x) ELSE UpperTail(-x)

\* ------------------------------------------------------------------------
\* State
\* ------------------------------------------------------------------------

VARIABLES
    call,        \* s_1_bs_option.Call object: [S, K, r, T, sigma]
    put,         \* s_1_bs_option.Put object:  [S, K, r, T, sigma]
    call3,       \* s3_extended.Call object: [spot, strike, risk_free, ttm, vol]
    put3,        \* s3_extended.Put object:  [spot, strike, risk_free, ttm, vol]
    ret,         \* the last method call on an option and the value it returned
    saved,       \* one earlier call and its value, kept for comparison
    last_quote,  \* FinancialAsset.last_quote
    history,     \* FinancialAsset.history
    quote_call,  \* the last update_last_quote call: its argument, outcome, pre-state
    elements,    \* List._elements: the dict, as its (key, value) pairs in iteration order
    count,       \* List._count
    ideal,       \* the sequence a built-in list would hold after the same calls
    appends,     \* how many append calls there have been
    pops,        \* how many pop calls returned an element
    removes,     \* how many remove calls found their value
    list_call,   \* the last List operation: its arguments and outcome
    calc_call,   \* the last CalculatorPythonNative.add call: operands and outcome
    return_call, \* the last FinancialAssetUtil.calculate_return call and its outcome
    equity,      \* the s_1_introduction.Equity object: [price, eps, pe]
    equity_call, \* the last call on the Equity class or object and its outcome
    script_pc,   \* s3_extended.py as a script: the next top-level statement
    script_names,\* the names bound in the module namespace so far
    script_out,  \* how many lines the script has printed
    uncaught,    \* the exception that ended the script, "none" while it runs
    clock,       \* the instant datetime.now() would return
    account,     \* the s2.py bank account: [cls, initial_balance, balance, history]
    bank_log,    \* the deposit / withdraw calls that returned True, in call order
    bank_call    \* the last deposit / withdraw call: its argument, result, pre-state

optVars   == <<call, put, call3, put3, ret, saved>>
assetVars == <<last_quote, history, quote_call>>
listVars  == <<elements, count, ideal, appends, pops, removes, list_call>>
utilVars  == <<calc_call, return_call, equity, equity_call>>
scriptVars == <<script_pc, script_names, script_out, uncaught, clock>>
bankVars  == <<account, bank_log, bank_call>>
vars      == <<optVars, assetVars, listVars, utilVars, scriptVars, bankVars>>

\* ------------------------------------------------------------------------
\* exercise/s1/s_1_bs_option.py
\* ------------------------------------------------------------------------

\* Option.__init__
Option(S, K, r, T, sigma) == [S |-> S, K |-> K, r |-> r, T |-> T, sigma |-> sigma]

\* 0.5 * self.sigma**2
HalfSigmaSq(sigma) == FMul(ONE \div 2, FMul(sigma, sigma))

\* Option.d1: (log(S/K) + (r + 0.5*sigma**2)*T) / sigma * sqrt(T),
\* evaluated left to right: the quotient by sigma is MULTIPLIED by sqrt(T).
d1(o) ==
    FMul(FDiv(FLog(FDiv(o.S, o.K)) + FMul(o.r + HalfSigmaSq(o.sigma), o.T), o.sigma),
         FSqrt(o.T))

\* Option.d2
d2(o) == d1(o) - FMul(o.sigma, FSqrt(o.T))

\* A slip in Option.vega: d1 itself where its density belongs.
vega_NoPdf(o) == FMul(FMul(o.S, d1(o)), FSqrt(o.T))

\* Option.vega
vega(o) == FMul(FMul(o.S, NormPdf(d1(o))), FSqrt(o.T))

\* self.K * math.exp(-self.r * self.T)
DiscountedStrike(o) == FMul(o.K, FExp(FMul(-o.r, o.T)))

\* A slip in Call.price: the strike is not discounted.
CallPrice_NoDiscount(o) ==
    FMul(o.S, NormCdf(d1(o))) - FMul(o.K, NormCdf(d2(o)))

\* Call.price
CallPrice(o) ==
    FMul(o.S, NormCdf(d1(o))) - FMul(DiscountedStrike(o), NormCdf(d2(o)))

\* A slip in Call.delta: d1 returned without the normal CDF.
CallDelta_NoCdf(o) == d1(o)

\* Call.delta
CallDelta(o) == NormCdf(d1(o))

\* Call.rho
CallRho(o) ==
    FMul(FMul(FMul(o.T, o.K), FExp(FMul(-o.r, o.T))), NormCdf(d2(o)))

\* -(self.S * norm.pdf(d1) * self.sigma) / (2 * math.sqrt(self.T))
ThetaDecay(o) ==
    FDiv(-FMul(FMul(o.S, NormPdf(d1(o))), o.sigma), 2 * FSqrt(o.T))

\* self.r * self.K * math.exp(-self.r * self.T)
RateDiscountedStrike(o) == FMul(FMul(o.r, o.K), FExp(FMul(-o.r, o.T)))

\* Call.theta
CallTheta(o) == ThetaDecay(o) - FMul(RateDiscountedStrike(o), NormCdf(d2(o)))

\* Call.theta_per_day: theta / 365.0
CallThetaPerDay(o) == RDiv(CallTheta(o), 365)

\* A slip in Put.price: the call's signs kept on d1 and d2.
PutPrice_CallSigns(o) ==
    FMul(DiscountedStrike(o), NormCdf(d2(o))) - FMul(o.S, NormCdf(d1(o)))

\* Put.price
PutPrice(o) ==
    FMul(DiscountedStrike(o), NormCdf(-d2(o))) - FMul(o.S, NormCdf(-d1(o)))

\* Put.delta
PutDelta(o) == NormCdf(d1(o)) - ONE

\* Put.rho
PutRho(o) ==
    FMul(FMul(FMul(-o.T, o.K), FExp(FMul(-o.r, o.T))), NormCdf(-d2(o)))

\* Put.rho_per_1pct: 0.01 * rho
PutRhoPer1Pct(o) == FMul(ONE \div 100, PutRho(o))

\* Put.theta
PutTheta(o) == ThetaDecay(o) + FMul(RateDiscountedStrike(o), NormCdf(-d2(o)))

\* Put.theta_per_day: theta / 365.0
PutThetaPerDay(o) == RDiv(PutTheta(o), 365)

\* ------------------------------------------------------------------------
\* theory/others/s3_extended.py: Option / Call / Put
\* ------------------------------------------------------------------------

\* Option.__init__
Option3(spot, strike, risk_free, time_to_maturity, volatility) ==
    [spot |-> spot, strike |-> strike, risk_free |-> risk_free,
     ttm |-> time_to_maturity, vol |-> volatility]

\* Option.compute_d1: the numerator divided by (vol * sqrt(ttm))
compute_d1(o) ==
    FDiv(FLog(FDiv(o.spot, o.strike))
            + FMul(o.risk_free + FMul(ONE \div 2, FMul(o.vol, o.vol)), o.ttm),
         FMul(o.vol, FSqrt(o.ttm)))

\* Option.compute_d2
compute_d2(o) == compute_d1(o) - FMul(o.vol, FSqrt(o.ttm))

\* Call.price
Call3Price(o) ==
    FMul(o.spot, NormCdf(compute_d1(o)))
        - FMul(FMul(o.strike, FExp(FMul(-o.risk_free, o.ttm))), NormCdf(compute_d2(o)))

\* Put.price
Put3Price(o) ==
    FMul(FMul(o.strike, FExp(FMul(-o.risk_free, o.ttm))), NormCdf(-compute_d2(o)))
        - FMul(o.spot, NormCdf(-compute_d1(o)))

\* ------------------------------------------------------------------------
\* Option objects: construction and method calls
\* ------------------------------------------------------------------------

\* Valid inputs (S > 0, K > 0, T > 0, sigma > 0) the objects are built from.
\* They include the two parameter sets the scripts themselves use:
\* (200, 250, 0.05, 1.0, 0.15) and (100, 90, 0.05, 1, 0.2).
Spots      == {100 * ONE, 200 * ONE}
Strikes    == {90 * ONE, 250 * ONE}
Rates      == {0, ONE \div 20}
Maturities == {ONE \div 4, ONE, 4 * ONE}
Vols       == {(15 * ONE) \div 100, ONE \div 5}

\* No method has been called yet.
NoCall == [obj |-> "none", m |-> "none", v |-> 0]

\* The state of the other programs while one program runs.
AssetIdle ==
    /\ last_quote = [date |-> 1, price |-> 175]
    /\ history = <<>>
    /\ quote_call = [op |-> "none"]

ListIdle ==
    /\ elements = <<>>
    /\ count = 0
    /\ ideal = <<>>
    /\ appends = 0
    /\ pops = 0
    /\ removes = 0
    /\ list_call = [op |-> "none"]

\* No Equity object has been constructed yet.
NoEquity == [constructed |-> FALSE]

\* No account has been opened yet.
NoAccount == [cls |-> "none"]

BankIdle ==
    /\ account = NoAccount
    /\ bank_log = <<>>
    /\ bank_call = [op |-> "none"]

\* The script has not been started.
ScriptIdle ==
    /\ script_pc = 0
    /\ script_names = {}
    /\ script_out = 0
    /\ uncaught = "none"
    /\ clock = 0

UtilIdle ==
    /\ calc_call = [op |-> "none"]
    /\ return_call = [op |-> "none"]
    /\ equity = NoEquity
    /\ equity_call = [op |-> "none"]

OptionIdle ==
    /\ call = Option(ONE, ONE, 0, ONE, ONE)
    /\ put = call
    /\ call3 = Option3(ONE, ONE, 0, ONE, ONE)
    /\ put3 = call3
    /\ ret = NoCall
    /\ saved = NoCall

\* call = Call(S, K, r, T, sigma); put = Put(S, K, r, T, sigma), and the
\* s3_extended objects built from the same five numbers.
InitOption ==
    /\ \E S \in Spots, K \in Strikes, r \in Rates, T \in Maturities, sigma \in Vols :
          /\ call = Option(S, K, r, T, sigma)
          /\ put = Option(S, K, r, T, sigma)
          /\ call3 = Option3(S, K, r, T, sigma)
          /\ put3 = Option3(S, K, r, T, sigma)
    /\ ret = NoCall
    /\ saved = NoCall
    /\ AssetIdle
    /\ ListIdle
    /\ UtilIdle
    /\ ScriptIdle
    /\ BankIdle

\* Parameters near the two ends the pricing formulas are examined at: a
\* maturity close to zero with the ordinary volatilities, and a very large
\* volatility with maturities on both sides of T = 2.
TinyT    == ONE \div 10000
BigSigma == 10 * ONE

LimitParams ==
    ({TinyT} \X Vols) \cup ({ONE, 4 * ONE} \X {BigSigma})

\* The objects built with those parameters.
InitLimit ==
    /\ \E S \in Spots, K \in Strikes, r \in Rates, p \in LimitParams :
          /\ call = Option(S, K, r, p[1], p[2])
          /\ put = Option(S, K, r, p[1], p[2])
          /\ call3 = Option3(S, K, r, p[1], p[2])
          /\ put3 = Option3(S, K, r, p[1], p[2])
    /\ ret = NoCall
    /\ saved = NoCall
    /\ AssetIdle
    /\ ListIdle
    /\ UtilIdle
    /\ ScriptIdle
    /\ BankIdle

\* Every parameter set an object can be built from.
ValidOptions ==
    {Option(S, K, r, T, sigma) :
        S \in Spots, K \in Strikes, r \in Rates, T \in Maturities, sigma \in Vols}
        \cup {Option(S, K, r, p[1], p[2]) :
                 S \in Spots, K \in Strikes, r \in Rates, p \in LimitParams}

ValidOptions3 ==
    {Option3(S, K, r, T, sigma) :
        S \in Spots, K \in Strikes, r \in Rates, T \in Maturities, sigma \in Vols}
        \cup {Option3(S, K, r, p[1], p[2]) :
                 S \in Spots, K \in Strikes, r \in Rates, p \in LimitParams}

\* What each method of s_1_bs_option returns on an object with attributes o
\* (the methods are pure, so the values are tabulated once per parameter set).
S1[o \in ValidOptions] ==
    [d1 |-> d1(o), d2 |-> d2(o), vega |-> vega(o),
     call_price |-> CallPrice(o), call_delta |-> CallDelta(o), call_rho |-> CallRho(o),
     call_theta |-> CallTheta(o), call_theta_per_day |-> CallThetaPerDay(o),
     put_price |-> PutPrice(o), put_delta |-> PutDelta(o), put_rho |-> PutRho(o),
     put_rho_per_1pct |-> PutRhoPer1Pct(o),
     put_theta |-> PutTheta(o), put_theta_per_day |-> PutThetaPerDay(o)]

\* What each method of the s3_extended option classes returns.
S3[o \in ValidOptions3] ==
    [compute_d1 |-> compute_d1(o), compute_d2 |-> compute_d2(o),
     call_price |-> Call3Price(o), put_price |-> Put3Price(o)]

\* A method of object obj returned v.  The call before it may be kept in
\* saved, so that any two calls of a run can be compared.
Returns(obj, m, v) ==
    /\ ret' = [obj |-> obj, m |-> m, v |-> v]
    /\ saved' \in {saved, ret}

\* No method of the option classes assigns an attribute.
OptionFrame ==
    UNCHANGED <<call, put, call3, put3, assetVars, listVars, utilVars, scriptVars, bankVars>>

\* The s_1_bs_option object named obj.
Obj(obj) == IF obj = "call" THEN call ELSE put

\* The s3_extended object named obj.
Obj3(obj) == IF obj = "call3" THEN call3 ELSE put3

\* Option.d1 (inherited by Call and Put)
Option_d1 == \E obj \in {"call", "put"} : Returns(obj, "d1", S1[Obj(obj)].d1) /\ OptionFrame

\* Option.d2
Option_d2 == \E obj \in {"call", "put"} : Returns(obj, "d2", S1[Obj(obj)].d2) /\ OptionFrame

\* A slip in Option.vega: the method normalises self.T as a side effect.
Option_vega_SetsT ==
    \E obj \in {"call", "put"} :
        /\ Returns(obj, "vega", S1[Obj(obj)].vega)
        /\ call' = IF obj = "call" THEN [call EXCEPT !.T = ONE] ELSE call
        /\ put' = IF obj = "put" THEN [put EXCEPT !.T = ONE] ELSE put
        /\ UNCHANGED <<call3, put3, assetVars, listVars, utilVars, scriptVars, bankVars>>

\* Option.vega
Option_vega == \E obj \in {"call", "put"} : Returns(obj, "vega", S1[Obj(obj)].vega) /\ OptionFrame

Call_price == Returns("call", "price", S1[call].call_price) /\ OptionFrame

Call_delta == Returns("call", "delta", S1[call].call_delta) /\ OptionFrame

Call_rho == Returns("call", "rho", S1[call].call_rho) /\ OptionFrame

Call_theta == Returns("call", "theta", S1[call].call_theta) /\ OptionFrame

Call_theta_per_day == Returns("call", "theta_per_day", S1[call].call_theta_per_day) /\ OptionFrame

Put_price == Returns("put", "price", S1[put].put_price) /\ OptionFrame

Put_delta == Returns("put", "delta", S1[put].put_delta) /\ OptionFrame

Put_rho == Returns("put", "rho", S1[put].put_rho) /\ OptionFrame

Put_rho_per_1pct == Returns("put", "rho_per_1pct", S1[put].put_rho_per_1pct) /\ OptionFrame

Put_theta == Returns("put", "theta", S1[put].put_theta) /\ OptionFrame

Put_theta_per_day == Returns("put", "theta_per_day", S1[put].put_theta_per_day) /\ OptionFrame

\* s3_extended Option.compute_d1 (inherited by Call and Put)
Option3_compute_d1 ==
    \E obj \in {"call3", "put3"} :
        Returns(obj, "compute_d1", S3[Obj3(obj)].compute_d1) /\ OptionFrame

\* s3_extended Option.compute_d2
Option3_compute_d2 ==
    \E obj \in {"call3", "put3"} :
        Returns(obj, "compute_d2", S3[Obj3(obj)].compute_d2) /\ OptionFrame

Call3_price == Returns("call3", "price", S3[call3].call_price) /\ OptionFrame

Put3_price == Returns("put3", "price", S3[put3].put_price) /\ OptionFrame

NextOption ==
    \/ Option_d1
    \/ Option_d2
    \/ Option_vega
    \/ Call_price
    \/ Call_delta
    \/ Call_rho
    \/ Call_theta
    \/ Call_theta_per_day
    \/ Put_price
    \/ Put_delta
    \/ Put_rho
    \/ Put_rho_per_1pct
    \/ Put_theta
    \/ Put_theta_per_day
    \/ Option3_compute_d1
    \/ Option3_compute_d2
    \/ Call3_price
    \/ Put3_price

SpecOption == InitOption /\ [][NextOption]_vars

\* The same methods on the objects built near the ends.
SpecLimit == InitLimit /\ [][NextOption]_vars

\* ------------------------------------------------------------------------
\* theory/others/s3_extended.py: Quote, FinancialAsset
\* ------------------------------------------------------------------------

\* How many quotes the history may hold before the model stops updating.
MaxHistory == 2

\* Quote.__init__ (dates are abstract instants)
Quote(date, price) == [date |-> date, price |-> price]

\* The quotes a caller may pass; 175.0 and -200 are the script's own prices.
Quotes == {Quote(d, p) : d \in {1, 2}, p \in {-200, 0, 175}}

\* FinancialAsset.__init__: the quote is stored as it comes, history is empty.
\* (ticker and currency are set here and never read or written again.)
InitAsset ==
    /\ \E quote \in Quotes : last_quote = quote
    /\ history = <<>>
    /\ quote_call = [op |-> "none"]
    /\ OptionIdle
    /\ ListIdle
    /\ UtilIdle
    /\ ScriptIdle
    /\ BankIdle

\* FinancialAsset.__check_quote_for_asset: TRUE when it raises
\* NegativePriceException.
check_quote_for_asset(new_quote) == new_quote.price < 0

\* What the call record keeps of a call of update_last_quote.
QuoteCall(new_quote, outcome, printed) ==
    [op |-> "update_last_quote", arg |-> new_quote, outcome |-> outcome,
     printed |-> printed, pre_last_quote |-> last_quote, pre_history |-> history]

\* A slip in update_last_quote: the old quote is archived before the check.
update_last_quote_ArchivesFirst(new_quote) ==
    /\ Len(history) < MaxHistory
    /\ history' = Append(history, last_quote)
    /\ IF check_quote_for_asset(new_quote)
       THEN /\ UNCHANGED last_quote
            /\ quote_call' = QuoteCall(new_quote, "returned", TRUE)
       ELSE /\ last_quote' = new_quote
            /\ quote_call' = QuoteCall(new_quote, "returned", FALSE)
    /\ UNCHANGED <<optVars, listVars, utilVars, scriptVars, bankVars>>

\* FinancialAsset.update_last_quote: the try body stops at the check when it
\* raises; the except clause prints and does not re-raise; finally: pass.
update_last_quote(new_quote) ==
    /\ check_quote_for_asset(new_quote) \/ Len(history) < MaxHistory
    /\ IF check_quote_for_asset(new_quote)
       THEN /\ UNCHANGED <<last_quote, history>>
            /\ quote_call' = QuoteCall(new_quote, "returned", TRUE)
       ELSE /\ history' = Append(history, last_quote)
            /\ last_quote' = new_quote
            /\ quote_call' = QuoteCall(new_quote, "returned", FALSE)
    /\ UNCHANGED <<optVars, listVars, utilVars, scriptVars, bankVars>>

NextAsset == \E new_quote \in Quotes : update_last_quote(new_quote)

SpecAsset == InitAsset /\ [][NextAsset]_vars

\* ------------------------------------------------------------------------
\* exercise/s2/s_2_custom_list_part_2.py: List
\* ------------------------------------------------------------------------

\* The longest List the model builds.
MaxLen == 3

\* How many append calls a run makes at most.
MaxAppends == 4

\* The elements stored.
Elems == {1, 2}

\* The indices tried: below zero, in range, and past the end.
Indices == (0 - 2) .. (MaxLen + 1)

\* A Python dict is the sequence of its (key, value) pairs in iteration
\* order: a new key goes to the end, an existing key keeps its place.
DictHas(d, k) == \E i \in 1 .. Len(d) : d[i][1] = k

DictPos(d, k) == CHOOSE i \in 1 .. Len(d) : d[i][1] = k

\* d[k]
DictGet(d, k) == d[DictPos(d, k)][2]

\* d[k] = v
DictSet(d, k, v) ==
    IF DictHas(d, k) THEN [d EXCEPT ![DictPos(d, k)] = <<k, v>>] ELSE Append(d, <<k, v>>)

\* del d[k]
DictDel(d, k) == SelectSeq(d, LAMBDA kv : kv[1] # k)

\* for i in range(index, self._count): self._elements[i] = self._elements.pop(i + 1)
\* (the pop is evaluated first; a missing key raises KeyError and stops the loop)
RECURSIVE ShiftDown(_, _, _)
ShiftDown(d, i, n) ==
    IF i >= n THEN [elements |-> d, raised |-> "none"]
    ELSE IF ~DictHas(d, i + 1) THEN [elements |-> d, raised |-> "KeyError"]
    ELSE ShiftDown(DictSet(DictDel(d, i + 1), i, DictGet(d, i + 1)), i + 1, n)

\* The List object holding the elements of seq, built by appends.
ListOf(seq) ==
    [elements |-> [i \in 1 .. Len(seq) |-> <<i - 1, seq[i]>>], count |-> Len(seq)]

\* The operands __add__ is given.
Others == {ListOf(<<>>), ListOf(<<2>>), ListOf(<<1, 2>>)}

\* Operands of __add__ that are no List: built-in lists, as the test passes.
BuiltinLists == {[builtin_list |-> <<2, 3, 4>>], [builtin_list |-> <<>>]}

\* isinstance(other, List)
IsList(other) == "count" \in DOMAIN other

\* What the call record keeps of a List operation: the arguments, the
\* exception raised ("none" when it returns), the value returned (<<>> for
\* None, <<x>> for x) and the object before the call.
ListCall(op, args, raised, result) ==
    [op |-> op, args |-> args, raised |-> raised, result |-> result,
     pre_elements |-> elements, pre_count |-> count, pre_ideal |-> ideal]

\* seq without its i-th entry
RemoveAt(seq, i) == SubSeq(seq, 1, i - 1) \o SubSeq(seq, i + 1, Len(seq))

\* List.__init__
InitList ==
    /\ elements = <<>>
    /\ count = 0
    /\ ideal = <<>>
    /\ appends = 0
    /\ pops = 0
    /\ removes = 0
    /\ list_call = [op |-> "none"]
    /\ OptionIdle
    /\ AssetIdle
    /\ UtilIdle
    /\ ScriptIdle
    /\ BankIdle

ListFrame == UNCHANGED <<optVars, assetVars, utilVars, scriptVars, bankVars>>

\* List.append
List_append(element) ==
    /\ count < MaxLen
    /\ appends < MaxAppends
    /\ elements' = DictSet(elements, count, element)
    /\ count' = count + 1
    /\ ideal' = Append(ideal, element)
    /\ appends' = appends + 1
    /\ UNCHANGED <<pops, removes>>
    /\ list_call' = ListCall("append", <<element>>, "none", <<>>)
    /\ ListFrame

\* A slip in List.remove: the key is deleted and the later keys stay where
\* they are.
List_remove_NoShift(value) ==
    /\ IF \E i \in 1 .. Len(elements) : elements[i][2] = value
       THEN LET pos   == CHOOSE i \in 1 .. Len(elements) :
                            /\ elements[i][2] = value
                            /\ \A j \in 1 .. i - 1 : elements[j][2] # value
                index == elements[pos][1]
            IN  /\ elements' = DictDel(elements, index)
                /\ count' = count - 1
                /\ list_call' = ListCall("remove", <<value>>, "none", <<>>)
       ELSE /\ UNCHANGED <<elements, count>>
            /\ list_call' = ListCall("remove", <<value>>, "none", <<>>)
    /\ ideal' = IF \E i \in 1 .. Len(ideal) : ideal[i] = value
                THEN RemoveAt(ideal, CHOOSE i \in 1 .. Len(ideal) :
                                        /\ ideal[i] = value
                                        /\ \A j \in 1 .. i - 1 : ideal[j] # value)
                ELSE ideal
    /\ removes' = IF \E i \in 1 .. Len(elements) : elements[i][2] = value
                  THEN removes + 1 ELSE removes
    /\ UNCHANGED <<appends, pops>>
    /\ ListFrame

\* A slip in List.remove: the last item equal to value is taken, not the first.
List_remove_Last(value) ==
    /\ IF \E i \in 1 .. Len(elements) : elements[i][2] = value
       THEN LET pos     == CHOOSE i \in 1 .. Len(elements) :
                              /\ elements[i][2] = value
                              /\ \A j \in i + 1 .. Len(elements) : elements[j][2] # value
                index   == elements[pos][1]
                shifted == ShiftDown(DictDel(elements, index), index, count - 1)
            IN  /\ elements' = shifted.elements
                /\ count' = count - 1
                /\ list_call' = ListCall("remove", <<value>>, shifted.raised, <<>>)
       ELSE /\ UNCHANGED <<elements, count>>
            /\ list_call' = ListCall("remove", <<value>>, "none", <<>>)
    /\ ideal' = IF \E i \in 1 .. Len(ideal) : ideal[i] = value
                THEN RemoveAt(ideal, CHOOSE i \in 1 .. Len(ideal) :
                                        /\ ideal[i] = value
                                        /\ \A j \in 1 .. i - 1 : ideal[j] # value)
                ELSE ideal
    /\ removes' = IF \E i \in 1 .. Len(elements) : elements[i][2] = value
                  THEN removes + 1 ELSE removes
    /\ UNCHANGED <<appends, pops>>
    /\ ListFrame

\* List.remove: the first item in the dict's iteration order equal to value
\* is deleted and the later keys are shifted down; no match, no change.
List_remove(value) ==
    /\ IF \E i \in 1 .. Len(elements) : elements[i][2] = value
       THEN LET pos     == CHOOSE i \in 1 .. Len(elements) :
                              /\ elements[i][2] = value
                              /\ \A j \in 1 .. i - 1 : elements[j][2] # value
                index   == elements[pos][1]
                shifted == ShiftDown(DictDel(elements, index), index, count - 1)
            IN  /\ elements' = shifted.elements
                /\ count' = count - 1
                /\ list_call' = ListCall("remove", <<value>>, shifted.raised, <<>>)
       ELSE /\ UNCHANGED <<elements, count>>
            /\ list_call' = ListCall("remove", <<value>>, "none", <<>>)
    /\ ideal' = IF \E i \in 1 .. Len(ideal) : ideal[i] = value
                THEN RemoveAt(ideal, CHOOSE i \in 1 .. Len(ideal) :
                                        /\ ideal[i] = value
                                        /\ \A j \in 1 .. i - 1 : ideal[j] # value)
                ELSE ideal
    /\ removes' = IF \E i \in 1 .. Len(elements) : elements[i][2] = value
                  THEN removes + 1 ELSE removes
    /\ UNCHANGED <<appends, pops>>
    /\ ListFrame

\* A slip in List.pop: the element is taken out but _count is not decremented.
List_pop_KeepsCount(index) ==
    /\ IF index < 0 \/ index >= count
       THEN /\ UNCHANGED <<elements, count, ideal, appends, pops, removes>>
            /\ list_call' = ListCall("pop", <<index>>, "IndexError", <<>>)
       ELSE IF ~DictHas(elements, index)
       THEN /\ UNCHANGED <<elements, count, ideal, appends, pops, removes>>
            /\ list_call' = ListCall("pop", <<index>>, "KeyError", <<>>)
       ELSE LET shifted == ShiftDown(DictDel(elements, index), index, count - 1)
            IN  /\ elements' = shifted.elements
                /\ UNCHANGED count
                /\ ideal' = RemoveAt(ideal, index + 1)
                /\ pops' = IF shifted.raised = "none" THEN pops + 1 ELSE pops
                /\ UNCHANGED <<appends, removes>>
                /\ list_call' =
                      IF shifted.raised = "none"
                      THEN ListCall("pop", <<index>>, "none", <<DictGet(elements, index)>>)
                      ELSE ListCall("pop", <<index>>, shifted.raised, <<>>)
    /\ ListFrame

\* A slip in List.pop: only the upper bound of the index is checked, so a
\* negative index reaches self._elements.pop(index).
List_pop_NoLowerBound(index) ==
    /\ IF index >= count
       THEN /\ UNCHANGED <<elements, count, ideal, appends, pops, removes>>
            /\ list_call' = ListCall("pop", <<index>>, "IndexError", <<>>)
       ELSE IF ~DictHas(elements, index)
       THEN /\ UNCHANGED <<elements, count, ideal, appends, pops, removes>>
            /\ list_call' = ListCall("pop", <<index>>, "KeyError", <<>>)
       ELSE LET shifted == ShiftDown(DictDel(elements, index), index, count - 1)
            IN  /\ elements' = shifted.elements
                /\ count' = count - 1
                /\ ideal' = RemoveAt(ideal, index + 1)
                /\ pops' = IF shifted.raised = "none" THEN pops + 1 ELSE pops
                /\ UNCHANGED <<appends, removes>>
                /\ list_call' =
                      IF shifted.raised = "none"
                      THEN ListCall("pop", <<index>>, "none", <<DictGet(elements, index)>>)
                      ELSE ListCall("pop", <<index>>, shifted.raised, <<>>)
    /\ ListFrame

\* List.pop
List_pop(index) ==
    /\ IF index < 0 \/ index >= count
       THEN /\ UNCHANGED <<elements, count, ideal, appends, pops, removes>>
            /\ list_call' = ListCall("pop", <<index>>, "IndexError", <<>>)
       ELSE IF ~DictHas(elements, index)
       THEN /\ UNCHANGED <<elements, count, ideal, appends, pops, removes>>
            /\ list_call' = ListCall("pop", <<index>>, "KeyError", <<>>)
       ELSE LET shifted == ShiftDown(DictDel(elements, index), index, count - 1)
            IN  /\ elements' = shifted.elements
                /\ count' = count - 1
                /\ ideal' = RemoveAt(ideal, index + 1)
                /\ pops' = IF shifted.raised = "none" THEN pops + 1 ELSE pops
                /\ UNCHANGED <<appends, removes>>
                /\ list_call' =
                      IF shifted.raised = "none"
                      THEN ListCall("pop", <<index>>, "none", <<DictGet(elements, index)>>)
                      ELSE ListCall("pop", <<index>>, shifted.raised, <<>>)
    /\ ListFrame

\* A slip in List.get_index: the loop does not stop at the first match, so
\* the key of the last item equal to value is returned.
List_get_index_Last(value) ==
    /\ list_call' =
          IF \E i \in 1 .. Len(elements) : elements[i][2] = value
          THEN ListCall("get_index", <<value>>, "none",
                        <<elements[CHOOSE i \in 1 .. Len(elements) :
                                      /\ elements[i][2] = value
                                      /\ \A j \in i + 1 .. Len(elements) :
                                            elements[j][2] # value][1]>>)
          ELSE ListCall("get_index", <<value>>, "none", <<-1>>)
    /\ UNCHANGED <<elements, count, ideal, appends, pops, removes>>
    /\ ListFrame

\* List.get_index: the key of the first item, in iteration order, equal to value
List_get_index(value) ==
    /\ list_call' =
          IF \E i \in 1 .. Len(elements) : elements[i][2] = value
          THEN ListCall("get_index", <<value>>, "none",
                        <<elements[CHOOSE i \in 1 .. Len(elements) :
                                      /\ elements[i][2] = value
                                      /\ \A j \in 1 .. i - 1 : elements[j][2] # value][1]>>)
          ELSE ListCall("get_index", <<value>>, "none", <<-1>>)
    /\ UNCHANGED <<elements, count, ideal, appends, pops, removes>>
    /\ ListFrame

\* str(element) for the integers stored
Str(element) == ToString(element)

\* ", ".join(items)
RECURSIVE Join(_)
Join(items) ==
    IF Len(items) = 0 THEN ""
    ELSE IF Len(items) = 1 THEN items[1]
    ELSE items[1] \o ", " \o Join(Tail(items))

\* A slip in __str__: the generator stops one index early.
List_str_SkipsLast ==
    /\ list_call' =
          IF \E i \in 0 .. count - 2 : ~DictHas(elements, i)
          THEN ListCall("__str__", <<>>, "KeyError", <<>>)
          ELSE ListCall("__str__", <<>>, "none",
                        <<"[" \o Join([k \in 1 .. (IF count > 0 THEN count - 1 ELSE 0)
                                         |-> Str(DictGet(elements, k - 1))]) \o "]">>)
    /\ UNCHANGED <<elements, count, ideal, appends, pops, removes>>
    /\ ListFrame

\* List.__str__: "[" + ", ".join(str(self._elements[i]) for i in range(self._count)) + "]"
List_str ==
    /\ list_call' =
          IF \E i \in 0 .. count - 1 : ~DictHas(elements, i)
          THEN ListCall("__str__", <<>>, "KeyError", <<>>)
          ELSE ListCall("__str__", <<>>, "none",
                        <<"[" \o Join([k \in 1 .. count |-> Str(DictGet(elements, k - 1))])
                              \o "]">>)
    /\ UNCHANGED <<elements, count, ideal, appends, pops, removes>>
    /\ ListFrame

\* List.__len__
List_len ==
    /\ list_call' = ListCall("__len__", <<>>, "none", <<count>>)
    /\ UNCHANGED <<elements, count, ideal, appends, pops, removes>>
    /\ ListFrame

\* A slip in __getitem__: the bound check lets index == _count through.
List_getitem_OffByOne(index) ==
    /\ list_call' =
          IF index < 0 \/ index > count
          THEN ListCall("__getitem__", <<index>>, "IndexError", <<>>)
          ELSE IF ~DictHas(elements, index)
          THEN ListCall("__getitem__", <<index>>, "KeyError", <<>>)
          ELSE ListCall("__getitem__", <<index>>, "none", <<DictGet(elements, index)>>)
    /\ UNCHANGED <<elements, count, ideal, appends, pops, removes>>
    /\ ListFrame

\* List.__getitem__
List_getitem(index) ==
    /\ list_call' =
          IF index < 0 \/ index >= count
          THEN ListCall("__getitem__", <<index>>, "IndexError", <<>>)
          ELSE IF ~DictHas(elements, index)
          THEN ListCall("__getitem__", <<index>>, "KeyError", <<>>)
          ELSE ListCall("__getitem__", <<index>>, "none", <<DictGet(elements, index)>>)
    /\ UNCHANGED <<elements, count, ideal, appends, pops, removes>>
    /\ ListFrame

\* A slip in __setitem__: the value is stored one key too far.
List_setitem_OffByOne(index, value) ==
    /\ IF index < 0 \/ index >= count
       THEN /\ UNCHANGED <<elements, ideal>>
            /\ list_call' = ListCall("__setitem__", <<index, value>>, "IndexError", <<>>)
       ELSE /\ elements' = DictSet(elements, index + 1, value)
            /\ ideal' = [ideal EXCEPT ![index + 1] = value]
            /\ list_call' = ListCall("__setitem__", <<index, value>>, "none", <<>>)
    /\ UNCHANGED <<count, appends, pops, removes>>
    /\ ListFrame

\* List.__setitem__
List_setitem(index, value) ==
    /\ IF index < 0 \/ index >= count
       THEN /\ UNCHANGED <<elements, ideal>>
            /\ list_call' = ListCall("__setitem__", <<index, value>>, "IndexError", <<>>)
       ELSE /\ elements' = DictSet(elements, index, value)
            /\ ideal' = [ideal EXCEPT ![index + 1] = value]
            /\ list_call' = ListCall("__setitem__", <<index, value>>, "none", <<>>)
    /\ UNCHANGED <<count, appends, pops, removes>>
    /\ ListFrame

\* List.__add__: the body is `pass`, so the call returns None
List_add(other) ==
    /\ list_call' = ListCall("__add__", <<other>>, "none", <<>>)
    /\ UNCHANGED <<elements, count, ideal, appends, pops, removes>>
    /\ ListFrame

NextList ==
    \/ \E element \in Elems : List_append(element)
    \/ \E value \in Elems : List_remove(value)
    \/ \E index \in Indices : List_pop(index)
    \/ \E value \in Elems : List_get_index(value)
    \/ List_len
    \/ List_str
    \/ \E index \in Indices : List_getitem(index)
    \/ \E index \in Indices, value \in Elems : List_setitem(index, value)
    \/ \E other \in Others : List_add(other)
    \/ \E other \in BuiltinLists : List_add(other)

SpecList == InitList /\ [][NextList]_vars

\* ------------------------------------------------------------------------
\* Python values and outcomes
\* ------------------------------------------------------------------------

\* A Python value: what type(x) is, and the number it holds (a float's is
\* fixed-point; True is 1 and False is 0, as in Python arithmetic), the text
\* of a str, nothing for None.
PyInt(n)   == [type |-> "int", value |-> n]
PyBool(b)  == [type |-> "bool", value |-> b]
PyFloat(x) == [type |-> "float", value |-> x]
PyStr(c)   == [type |-> "str", text |-> c]
PyNone     == [type |-> "NoneType"]

\* isinstance(x, cls): bool is a subclass of int.
isinstance(x, cls) ==
    IF cls = "int" THEN x.type \in {"int", "bool"} ELSE x.type = cls

\* A call returned v / a call raised the exception exc.
Return(v)  == [raised |-> "none", value |-> v]
Raise(exc) == [raised |-> exc, value |-> 0]

\* a / b on numbers: ZeroDivisionError when b is zero.
PyDiv(a, b) == IF b = 0 THEN Raise("ZeroDivisionError") ELSE Return(FDiv(a, b))

\* math.log(x): ValueError (math domain error) unless x > 0.
PyLog(x) == IF x <= 0 THEN Raise("ValueError") ELSE Return(FLog(x))

\* ------------------------------------------------------------------------
\* theory/others/s3_extended.py: CalculatorPythonNative
\* ------------------------------------------------------------------------

\* CalculatorPythonNative._add_int
_add_int(a, b) == PyInt(a.value + b.value)

\* CalculatorPythonNative._add_double
_add_double(a, b) == PyFloat(a.value + b.value)

\* A slip in add: one isinstance test over (int, float) for both operands.
add_AcceptsMixed(a, b) ==
    IF isinstance(a, "int") /\ isinstance(b, "int")
    THEN Return(_add_int(a, b))
    ELSE IF (isinstance(a, "int") \/ isinstance(a, "float"))
            /\ (isinstance(b, "int") \/ isinstance(b, "float"))
    THEN Return(PyFloat((IF isinstance(a, "int") THEN a.value * ONE ELSE a.value)
                        + (IF isinstance(b, "int") THEN b.value * ONE ELSE b.value)))
    ELSE Raise("TypeError")

\* CalculatorPythonNative.add
add(a, b) ==
    IF isinstance(a, "int") /\ isinstance(b, "int")
    THEN Return(_add_int(a, b))
    ELSE IF isinstance(a, "float") /\ isinstance(b, "float")
    THEN Return(_add_double(a, b))
    ELSE Raise("TypeError")

\* The operands a caller may pass: 5, 10, 5.0 and 10.0 are the script's own.
Operands ==
    {PyInt(n) : n \in {0 - 3, 0, 5, 10}}
        \cup {PyBool(b) : b \in {0, 1}}
        \cup {PyFloat(x) : x \in {0 - (5 * ONE) \div 2, 0, 5 * ONE, 10 * ONE}}
        \cup {PyStr("5"), PyNone}

InitCalc == OptionIdle /\ AssetIdle /\ ListIdle /\ UtilIdle /\ ScriptIdle /\ BankIdle

\* calc.add(a, b)
Calc_add(a, b) ==
    /\ calc_call' = [op |-> "add", a |-> a, b |-> b,
                     raised |-> add(a, b).raised, result |-> add(a, b).value]
    /\ UNCHANGED <<optVars, assetVars, listVars, return_call, equity, equity_call,
                   scriptVars, bankVars>>

NextCalc == \E a \in Operands, b \in Operands : Calc_add(a, b)

SpecCalc == InitCalc /\ [][NextCalc]_vars

\* ------------------------------------------------------------------------
\* theory/others/s3_extended.py: FinancialAssetUtil.calculate_return
\* ------------------------------------------------------------------------

\* The longest price list a caller passes.
MaxPrices == 3

\* Positional arguments: a number or a list of numbers.
NumArg(x)  == [num |-> x]
ListArg(p) == [list |-> p]

\* isinstance(arg, (int, float)) / isinstance(arg, list)
IsNumArg(arg)  == "num" \in DOMAIN arg
IsListArg(arg) == "list" \in DOMAIN arg

\* A slip in the return between two values: the change is divided by the
\* final value (and the log ratio is taken the wrong way round).
one_return_OverFinal(initial_value, final_value, method) ==
    IF method = "simple"
    THEN PyDiv(final_value - initial_value, final_value)
    ELSE IF method = "log"
    THEN LET ratio == PyDiv(initial_value, final_value)
         IN  IF ratio.raised # "none" THEN ratio ELSE PyLog(ratio.value)
    ELSE Raise("ValueError")

\* The return between two values, as both branches of calculate_return
\* compute it: (final - initial) / initial, math.log(final / initial), or
\* ValueError for any other method.
one_return(initial_value, final_value, method) ==
    IF method = "simple"
    THEN PyDiv(final_value - initial_value, initial_value)
    ELSE IF method = "log"
    THEN LET ratio == PyDiv(final_value, initial_value)
         IN  IF ratio.raised # "none" THEN ratio ELSE PyLog(ratio.value)
    ELSE Raise("ValueError")

\* The loop of the list branch from prices[i - 1], prices[i] on (i counts
\* from 1 as in the code; prices[i] there is prices[i + 1] here).  The
\* first exception ends the call.
RECURSIVE list_returns(_, _, _, _)
list_returns(prices, i, method, returns) ==
    IF i > Len(prices) - 1 THEN Return(returns)
    ELSE LET ret_i == one_return(prices[i], prices[i + 1], method)
         IN  IF ret_i.raised # "none" THEN ret_i
             ELSE list_returns(prices, i + 1, method, Append(returns, ret_i.value))

\* FinancialAssetUtil.calculate_return(*args, method)
calculate_return(args, method) ==
    IF Len(args) = 2 /\ \A k \in 1 .. 2 : IsNumArg(args[k])
    THEN one_return(args[1].num, args[2].num, method)
    ELSE IF Len(args) = 1 /\ IsListArg(args[1])
    THEN IF Len(args[1].list) < 2
         THEN Raise("ValueError")
         ELSE list_returns(args[1].list, 1, method, <<>>)
    ELSE Raise("ValueError")

\* The prices a caller may pass: the script's own 100, 105 and 103, and 0.
Prices == {0, 100 * ONE, 103 * ONE, 105 * ONE}

PriceLists == UNION {[1 .. n -> Prices] : n \in 0 .. MaxPrices}

\* The method keyword: the two the function knows and one it does not.
Methods == {"simple", "log", "compound"}

\* The argument tuples a caller may pass.
ReturnArgs ==
    {<<ListArg(p)>> : p \in PriceLists}
        \cup {<<NumArg(x), NumArg(y)>> : x \in Prices, y \in Prices}
        \cup {<<>>, <<NumArg(100 * ONE)>>, <<NumArg(100 * ONE), ListArg(<<>>)>>,
              <<ListArg(<<>>), ListArg(<<>>)>>}

InitReturn == OptionIdle /\ AssetIdle /\ ListIdle /\ UtilIdle /\ ScriptIdle /\ BankIdle

\* FinancialAssetUtil.calculate_return(*args, method=method)
FinancialAssetUtil_calculate_return(args, method) ==
    /\ return_call' = [op |-> "calculate_return", args |-> args, method |-> method,
                       raised |-> calculate_return(args, method).raised,
                       result |-> calculate_return(args, method).value]
    /\ UNCHANGED <<optVars, assetVars, listVars, calc_call, equity, equity_call,
                   scriptVars, bankVars>>

NextReturn ==
    \E args \in ReturnArgs, method \in Methods :
        FinancialAssetUtil_calculate_return(args, method)

SpecReturn == InitReturn /\ [][NextReturn]_vars

\* ------------------------------------------------------------------------
\* exercise/s1/s_1_introduction.py: Equity
\* ------------------------------------------------------------------------

\* A slip in calculate_pe_ratio: only a negative eps is turned away.
calculate_pe_ratio_DividesByZero(self) ==
    IF self.eps = <<>> \/ self.eps[1] < 0
    THEN Return(0)
    ELSE PyDiv(self.price, self.eps[1])

\* Equity.calculate_pe_ratio; self.eps is <<>> for None, <<x>> for the float x.
calculate_pe_ratio(self) ==
    IF self.eps = <<>> \/ self.eps[1] <= 0
    THEN Return(0)
    ELSE PyDiv(self.price, self.eps[1])

\* The prices and earnings per share a caller may pass; 230 and 6.1 are the
\* script's own.
EquityPrices == {0, 10 * ONE, 50 * ONE, 97 * ONE, 100 * ONE, 150 * ONE, 230 * ONE}

EpsValues ==
    {<<>>} \cup {<<x>> : x \in {0 - (5 * ONE) \div 2, 0 - ONE, 0, ONE \div 2, ONE, 2 * ONE,
                                (61 * ONE) \div 10, 10 * ONE}}

InitEquity == OptionIdle /\ AssetIdle /\ ListIdle /\ UtilIdle /\ ScriptIdle /\ BankIdle

EquityFrame ==
    UNCHANGED <<optVars, assetVars, listVars, calc_call, return_call, scriptVars, bankVars>>

\* Equity.__init__: price and eps are stored, then pe is computed from them.
\* (ticker and currency are stored and only printed.)  If the computation
\* raises, no object comes out of the constructor.
Equity_init(price, eps) ==
    LET self == [constructed |-> TRUE, price |-> price, eps |-> eps]
        pe   == calculate_pe_ratio(self)
    IN  /\ equity' = IF pe.raised = "none"
                     THEN [constructed |-> TRUE, price |-> price, eps |-> eps,
                           pe |-> pe.value]
                     ELSE equity
        /\ equity_call' = [op |-> "__init__", raised |-> pe.raised, result |-> 0]
        /\ EquityFrame

\* equity.calculate_pe_ratio()
Equity_calculate_pe_ratio ==
    /\ equity.constructed
    /\ equity_call' = [op |-> "calculate_pe_ratio",
                       raised |-> calculate_pe_ratio(equity).raised,
                       result |-> calculate_pe_ratio(equity).value]
    /\ UNCHANGED equity
    /\ EquityFrame

NextEquity ==
    \/ \E price \in EquityPrices, eps \in EpsValues : Equity_init(price, eps)
    \/ Equity_calculate_pe_ratio

SpecEquity == InitEquity /\ [][NextEquity]_vars

\* ------------------------------------------------------------------------
\* theory/others/s3_extended.py run as a script
\* ------------------------------------------------------------------------

\* How far the clock may advance while the script runs.
MaxClock == 2

\* The classes of the script that derive from ABC: their bases, the methods
\* their bodies define, and those of them marked @abstractmethod.
AbcClasses ==
    [AbstractClassExample |->
        [bases |-> {}, defines |-> {"mandatory_method", "not_mandatory_method"},
         abstract |-> {"mandatory_method"}],
     Subclass |->
        [bases |-> {"AbstractClassExample"},
         defines |-> {"mandatory_method", "another_method"}, abstract |-> {}],
     AnotherSubclass |->
        [bases |-> {"AbstractClassExample"},
         defines |-> {"another_method"}, abstract |-> {}]]

\* cls.__abstractmethods__ as ABCMeta computes it: the methods the class
\* marks abstract, and those inherited abstract that its body does not define.
\* A class that does not derive from ABC has none.
RECURSIVE AbstractMethods(_)
AbstractMethods(cls) ==
    IF cls \notin DOMAIN AbcClasses THEN {}
    ELSE AbcClasses[cls].abstract
            \cup (UNION {AbstractMethods(base) : base \in AbcClasses[cls].bases}
                    \ AbcClasses[cls].defines)

\* cls(...): TypeError when the class still has abstract methods.
Instantiate(cls) == IF AbstractMethods(cls) # {} THEN Raise("TypeError") ELSE Return(cls)

\* divide(a, b): the ZeroDivisionError of a / b is caught and reported by one
\* printed line; finally returns division, None (<<>>) in that case.
divide(a, b) ==
    IF PyDiv(a, b).raised = "ZeroDivisionError"
    THEN [raised |-> "none", value |-> <<>>, printed |-> 1]
    ELSE [raised |-> "none", value |-> <<PyDiv(a, b).value>>, printed |-> 0]

\* A top-level statement: its line, what it does, the names it reads and
\* binds, the lines it prints itself, and the operand of what it does.
Stmt(line, kind, uses, binds, prints, arg) ==
    [line |-> line, kind |-> kind, uses |-> uses, binds |-> binds, prints |-> prints,
     arg |-> arg]

Import(line, binds)          == Stmt(line, "import", {}, binds, 0, 0)
ClassDef(line, uses, name)   == Stmt(line, "class", uses, {name}, 0, 0)
FuncDef(line, name)          == Stmt(line, "def", {}, {name}, 0, 0)
Assign(line, uses, binds)    == Stmt(line, "assign", uses, binds, 0, 0)
New(line, cls, target)       == Stmt(line, "new", {cls}, {target}, 0, cls)
Show(line, uses)             == Stmt(line, "print", uses, {}, 1, 0)

\* The top-level statements of s3_extended.py up to the abstract classes.
ScriptPart1 ==
    <<Import(8, {"datetime"}), Import(10, {"norm"}), Import(11, {"math"}),
      ClassDef(41, {}, "Asset"), ClassDef(45, {"Asset"}, "Equity"),
      ClassDef(52, {"Asset"}, "Option"), ClassDef(69, {"Option"}, "Call"),
      ClassDef(78, {"Option"}, "Put"),
      New(89, "Equity", "stock"), New(90, "Call", "call"), New(91, "Put", "put"),
      FuncDef(93, "print_asset_price"),
      Show(97, {"print_asset_price", "stock"}),
      Show(98, {"print_asset_price", "call", "math", "norm"}),
      Show(99, {"print_asset_price", "put", "math", "norm"}),
      Import(149, {"dispatch"}),
      ClassDef(151, {"dispatch"}, "CalculatorDispatchExample"),
      New(164, "CalculatorDispatchExample", "calc"),
      Show(165, {"calc"}), Show(166, {"calc"}),
      ClassDef(177, {}, "CalculatorPythonNative"),
      New(193, "CalculatorPythonNative", "calc"),
      Stmt(194, "add", {"calc"}, {}, 1, <<PyInt(5), PyInt(10)>>),
      Stmt(195, "add", {"calc"}, {}, 1, <<PyFloat(5 * ONE), PyFloat(10 * ONE)>>),
      ClassDef(231, {}, "CalculatorWithDynamicHandling"),
      New(240, "CalculatorWithDynamicHandling", "calc"),
      Show(241, {"calc"}), Show(242, {"calc", "math"}),
      ClassDef(247, {}, "FinancialAssetUtil"),
      Assign(292, {}, {"initial_price"}), Assign(293, {}, {"final_price"}),
      Stmt(294, "calculate_return", {"FinancialAssetUtil", "initial_price", "final_price"},
           {"simple_return"}, 0,
           [args |-> <<NumArg(100 * ONE), NumArg(110 * ONE)>>, method |-> "simple"]),
      Show(295, {"simple_return"}),
      Stmt(298, "calculate_return",
           {"FinancialAssetUtil", "initial_price", "final_price", "math"},
           {"log_return"}, 0,
           [args |-> <<NumArg(100 * ONE), NumArg(110 * ONE)>>, method |-> "log"]),
      Show(299, {"log_return"}),
      Assign(302, {}, {"price_series"}),
      Stmt(303, "calculate_return", {"FinancialAssetUtil", "price_series"},
           {"returns_simple"}, 0,
           [args |-> <<ListArg(<<100 * ONE, 105 * ONE, 103 * ONE, 108 * ONE>>)>>,
            method |-> "simple"]),
      Show(304, {"returns_simple"}),
      Stmt(308, "calculate_return", {"FinancialAssetUtil", "price_series", "math"},
           {"returns_log"}, 0,
           [args |-> <<ListArg(<<100 * ONE, 105 * ONE, 103 * ONE, 108 * ONE>>)>>,
            method |-> "log"]),
      Show(309, {"returns_log"})>>

\* The statements from the abstract classes to the end of the file.
ScriptPart2 ==
    <<Import(349, {"ABC", "abstractmethod"}),
      ClassDef(352, {"ABC", "abstractmethod"}, "AbstractClassExample"),
      ClassDef(361, {"AbstractClassExample"}, "Subclass"),
      ClassDef(369, {"AbstractClassExample"}, "AnotherSubclass"),
      New(374, "Subclass", "x"),
      Show(375, {"x"}),
      New(376, "AnotherSubclass", "y"),
      New(377, "AbstractClassExample", "z"),
      Import(398, {"Protocol"}),
      ClassDef(400, {"Protocol"}, "Tradable"),
      ClassDef(413, {}, "Ticker"), ClassDef(418, {}, "Stock"),
      FuncDef(426, "display_instrument_price"),
      New(429, "Ticker", "ticker"), New(430, "Stock", "stock"),
      Show(431, {"display_instrument_price", "stock"}),
      ClassDef(439, {"Protocol"}, "Pricable"),
      ClassDef(443, {}, "StockPricable"), ClassDef(452, {}, "CallPricable"),
      FuncDef(476, "calculate_asset_list_value"),
      New(483, "StockPricable", "stock"), New(484, "CallPricable", "option"),
      Assign(486, {"stock", "option"}, {"asset_list"}),
      Assign(488, {"calculate_asset_list_value", "asset_list", "math", "norm"},
             {"total_value"}),
      Show(489, {"total_value"}),
      FuncDef(519, "divide"),
      Stmt(529, "divide", {"divide"}, {"result"}, 0, <<(21 * ONE) \div 2, 2 * ONE>>),
      Show(530, {"result"}),
      Stmt(531, "divide", {"divide"}, {"result1"}, 0, <<(21 * ONE) \div 2, 0>>),
      Show(532, {"result1"}),
      ClassDef(568, {}, "NegativePriceException"),
      ClassDef(577, {"datetime"}, "Quote"),
      ClassDef(586, {}, "FinancialAsset"),
      Assign(610, {"datetime"}, {"last_date", "last_close"}),
      New(611, "Quote", "equity_last_quote"),
      New(612, "FinancialAsset", "equity"),
      Assign(614, {"datetime"}, {"last_date2", "last_close2"}),
      New(615, "Quote", "equity_last_quote2"),
      Stmt(616, "update_last_quote", {"equity", "equity_last_quote2"}, {}, 0,
           Quote(clock, 0 - 200))>>

Script == ScriptPart1 \o ScriptPart2

\* The exception a statement ends with, "none" when it completes.  A name
\* read before it is bound is a NameError; update_last_quote catches the
\* NegativePriceException of its check itself.
StmtRaises(stmt) ==
    IF ~(stmt.uses \subseteq script_names) THEN "NameError"
    ELSE IF stmt.kind = "new" THEN Instantiate(stmt.arg).raised
    ELSE IF stmt.kind = "add" THEN add(stmt.arg[1], stmt.arg[2]).raised
    ELSE IF stmt.kind = "calculate_return"
    THEN calculate_return(stmt.arg.args, stmt.arg.method).raised
    ELSE IF stmt.kind = "divide" THEN divide(stmt.arg[1], stmt.arg[2]).raised
    ELSE "none"

\* The lines a completed statement adds to standard output.
StmtPrints(stmt) ==
    IF stmt.kind = "divide" THEN divide(stmt.arg[1], stmt.arg[2]).printed
    ELSE IF stmt.kind = "update_last_quote"
    THEN (IF check_quote_for_asset(stmt.arg) THEN 2 ELSE 0)
    ELSE stmt.prints

\* python s3_extended.py: the interpreter is at the first statement.
InitScript ==
    /\ script_pc = 1
    /\ script_names = {}
    /\ script_out = 0
    /\ uncaught = "none"
    /\ clock = 0
    /\ OptionIdle /\ AssetIdle /\ ListIdle /\ UtilIdle /\ BankIdle

ScriptFrame == UNCHANGED <<optVars, assetVars, listVars, utilVars, bankVars>>

\* The interpreter executes the next top-level statement; an exception no
\* statement catches ends the script there.
ExecStatement ==
    /\ uncaught = "none"
    /\ script_pc \in 1 .. Len(Script)
    /\ LET stmt == Script[script_pc]
       IN  IF StmtRaises(stmt) # "none"
           THEN /\ uncaught' = StmtRaises(stmt)
                /\ UNCHANGED <<script_pc, script_names, script_out>>
           ELSE /\ script_pc' = script_pc + 1
                /\ script_names' = script_names \cup stmt.binds
                /\ script_out' = script_out + StmtPrints(stmt)
                /\ UNCHANGED uncaught
    /\ UNCHANGED clock
    /\ ScriptFrame

\* Time passes while the script runs.
Tick ==
    /\ clock < MaxClock
    /\ clock' = clock + 1
    /\ UNCHANGED <<script_pc, script_names, script_out, uncaught>>
    /\ ScriptFrame

NextScript == ExecStatement \/ Tick

SpecScript == InitScript /\ [][NextScript]_vars

\* ------------------------------------------------------------------------
\* theory/s2.py: BankAccount, BankAccountWithDunder
\* ------------------------------------------------------------------------

\* How many transactions an account records before the model stops adding.
MaxTransactions == 3

\* BankAccount.__init__ / BankAccountWithDunder.__init__ (owner and currency
\* are stored and only printed).
NewAccount(cls, initial_balance) ==
    [cls |-> cls, initial_balance |-> initial_balance, balance |-> initial_balance,
     history |-> <<>>]

\* __add_transaction(transaction)
add_transaction(self, transaction) == [self EXCEPT !.history = Append(@, transaction)]

\* A slip in deposit: a zero amount passes the test.
BankAccount_deposit_AcceptsZero(self, amount) ==
    IF amount >= 0
    THEN [self |-> add_transaction([self EXCEPT !.balance = @ + amount],
                                   "Deposit of " \o ToString(amount)),
          result |-> TRUE]
    ELSE [self |-> self, result |-> FALSE]

\* BankAccount.deposit: the account after the call and the value returned.
BankAccount_deposit(self, amount) ==
    IF amount > 0
    THEN [self |-> add_transaction([self EXCEPT !.balance = @ + amount],
                                   "Deposit of " \o ToString(amount)),
          result |-> TRUE]
    ELSE [self |-> self, result |-> FALSE]

\* A slip in withdraw: the amount is not compared with the balance.
BankAccount_withdraw_Overdraws(self, amount) ==
    IF 0 < amount
    THEN [self |-> add_transaction([self EXCEPT !.balance = @ - amount],
                                   "Withdrawal of " \o ToString(amount)),
          result |-> TRUE]
    ELSE [self |-> self, result |-> FALSE]

\* A slip in withdraw: the transaction is not recorded.
BankAccount_withdraw_NotRecorded(self, amount) ==
    IF 0 < amount /\ amount <= self.balance
    THEN [self |-> [self EXCEPT !.balance = @ - amount], result |-> TRUE]
    ELSE [self |-> self, result |-> FALSE]

\* BankAccount.withdraw
BankAccount_withdraw(self, amount) ==
    IF 0 < amount /\ amount <= self.balance
    THEN [self |-> add_transaction([self EXCEPT !.balance = @ - amount],
                                   "Withdrawal of " \o ToString(amount)),
          result |-> TRUE]
    ELSE [self |-> self, result |-> FALSE]

\* BankAccountWithDunder.deposit
BankAccountWithDunder_deposit(self, amount) ==
    IF amount > 0
    THEN [self |-> add_transaction([self EXCEPT !.balance = @ + amount],
                                   "Deposit of " \o ToString(amount)),
          result |-> TRUE]
    ELSE [self |-> self, result |-> FALSE]

\* BankAccountWithDunder.withdraw
BankAccountWithDunder_withdraw(self, amount) ==
    IF 0 < amount /\ amount <= self.balance
    THEN [self |-> add_transaction([self EXCEPT !.balance = @ - amount],
                                   "Withdrawal of " \o ToString(amount)),
          result |-> TRUE]
    ELSE [self |-> self, result |-> FALSE]

\* The two classes, the non-negative balances an account is opened with
\* (1000 and 500 are the script's own) and the amounts a caller may pass
\* (500 is the script's deposit).
AccountClasses  == {"BankAccount", "BankAccountWithDunder"}
InitialBalances == {0, 500, 1000}
Amounts         == {0 - 100, 0, 100, 500, 1500}

\* account = BankAccount(owner, initial_balance), or the class with __str__
InitBank ==
    /\ \E cls \in AccountClasses, initial_balance \in InitialBalances :
          account = NewAccount(cls, initial_balance)
    /\ bank_log = <<>>
    /\ bank_call = [op |-> "none"]
    /\ OptionIdle /\ AssetIdle /\ ListIdle /\ UtilIdle /\ ScriptIdle

BankFrame == UNCHANGED <<optVars, assetVars, listVars, utilVars, scriptVars>>

\* What a call does to the state: the account becomes done.self, the call is
\* kept with the account as it was, and a call that returned True is logged.
BankCall(op, amount, done) ==
    /\ done.result => Len(account.history) < MaxTransactions
    /\ account' = done.self
    /\ bank_call' = [op |-> op, amount |-> amount, result |-> done.result, pre |-> account]
    /\ bank_log' = IF done.result THEN Append(bank_log, [op |-> op, amount |-> amount])
                   ELSE bank_log
    /\ BankFrame

\* account.deposit(amount), on an object of either class
Account_deposit(amount) ==
    BankCall("deposit", amount,
             IF account.cls = "BankAccount"
             THEN BankAccount_deposit(account, amount)
             ELSE BankAccountWithDunder_deposit(account, amount))

\* account.withdraw(amount)
Account_withdraw(amount) ==
    BankCall("withdraw", amount,
             IF account.cls = "BankAccount"
             THEN BankAccount_withdraw(account, amount)
             ELSE BankAccountWithDunder_withdraw(account, amount))

NextBank ==
    \/ \E amount \in Amounts : Account_deposit(amount)
    \/ \E amount \in Amounts : Account_withdraw(amount)

SpecBank == InitBank /\ [][NextBank]_vars

\* ------------------------------------------------------------------------
\* Properties of the option classes
\* ------------------------------------------------------------------------

\* Two floats are equal up to rounding: within EqTol units of 1e-6.
EqTol == 10

Close(a, b) == Abs(a - b) <= EqTol

\* The last call was method m of object obj.
Last(obj, m) == ret.obj = obj /\ ret.m = m

\* The kept earlier call was method m of object obj.
Kept(obj, m) == saved.obj = obj /\ saved.m = m

\* The contract's d1: (ln(S/K) + (r + 0.5 sigma^2) T) / (sigma sqrt(T)).
D1Contract(o) ==
    FDiv(FLog(FDiv(o.S, o.K)) + FMul(o.r + FMul(ONE \div 2, FMul(o.sigma, o.sigma)), o.T),
         FMul(o.sigma, FSqrt(o.T)))

\* C1: for every valid input, Option.d1() returns
\* (ln(S/K) + (r + 0.5 sigma^2) T) / (sigma sqrt(T)), for every T and not
\* only T = 1.  (The code multiplies by sqrt(T) instead: refuted for T # 1.)
C1_D1IsContractFormula ==
    ret.m = "d1" => Close(ret.v, D1Contract(Obj(ret.obj)))

\* C2: put-call parity: for a Call and a Put built from identical parameters,
\* Call.price() - Put.price() = S - K exp(-r T), to the tolerance the
\* specification names (1e-6, one unit of the model's floats).
ParityTol == ONE \div 1000000

C2_PutCallParity ==
    (Kept("call", "price") /\ Last("put", "price"))
        => Abs((saved.v - ret.v) - (call.S - FMul(call.K, FExp(FMul(-call.r, call.T)))))
              <= ParityTol

\* C2 witness: both prices have been computed, for a maturity other than one
\* year and for options that are worth something.
C2_Witness ==
    /\ Kept("call", "price") /\ Last("put", "price")
    /\ call.T # ONE
    /\ saved.v > ONE /\ ret.v > ONE

\* C3: the pricing of s_1_bs_option.py and of s3_extended.py are duplicates:
\* for identical valid parameters d1()/Call.price()/Put.price() return the
\* same values as compute_d1()/Call.price()/Put.price().  (Refuted for
\* T # 1, because of the d1 of C1.)
C3_DuplicateImplementationsAgree ==
    /\ (Kept("call", "d1") /\ Last("call3", "compute_d1")) => Close(saved.v, ret.v)
    /\ (Kept("call", "price") /\ Last("call3", "price")) => Close(saved.v, ret.v)
    /\ (Kept("put", "price") /\ Last("put3", "price")) => Close(saved.v, ret.v)

\* C4: Call.delta() lies in [0, 1], Put.delta() lies in [-1, 0], and
\* Put.delta() = Call.delta() - 1 for identical parameters.
C4_DeltaRanges ==
    /\ Last("call", "delta") => (0 <= ret.v /\ ret.v <= ONE)
    /\ Last("put", "delta") => (-ONE <= ret.v /\ ret.v <= 0)
    /\ (Kept("call", "delta") /\ Last("put", "delta")) => ret.v = saved.v - ONE

\* C4 witness: both deltas computed, strictly inside their ranges.
C4_Witness ==
    /\ Kept("call", "delta") /\ Last("put", "delta")
    /\ 0 < saved.v /\ saved.v < ONE
    /\ -ONE < ret.v /\ ret.v < 0

\* C5: Option.vega() is non-negative for every valid input, and is the same
\* value for a Call and a Put with identical parameters.
C5_VegaNonNegative ==
    /\ ret.m = "vega" => ret.v >= 0
    /\ (Kept("call", "vega") /\ Last("put", "vega")) => ret.v = saved.v

\* C5 witness: vega computed on both objects, out of the money (d1 < 0).
C5_Witness ==
    /\ Kept("call", "vega") /\ Last("put", "vega")
    /\ ret.v > 0
    /\ S1[call].d1 < 0

\* C6: option parameters are immutable once set and derived values are pure:
\* no method call changes S, K, r, T or sigma of either object, and a
\* repeated call returns the value the earlier call of that method returned.
C6_ParametersImmutableValuesPure ==
    [][ /\ call' = call
        /\ put' = put
        /\ (saved'.obj = ret'.obj /\ saved'.m = ret'.m) => saved'.v = ret'.v ]_vars

\* C6 witness: a method has been called again after other calls.
C6_Witness ==
    /\ Kept("put", "theta_per_day") /\ Last("put", "theta_per_day")
    /\ ret.v # 0

\* ------------------------------------------------------------------------
\* Properties of FinancialAsset
\* ------------------------------------------------------------------------

\* The last call was update_last_quote with a negative price.
NegativeUpdate ==
    /\ quote_call.op = "update_last_quote"
    /\ quote_call.arg.price < 0

\* C7: update_last_quote called with a quote whose price is negative returns
\* normally (the exception is caught, not re-raised) and leaves last_quote
\* and history exactly as they were before the call.
C7_NegativeQuoteLeavesAssetUnchanged ==
    NegativeUpdate =>
        /\ quote_call.outcome = "returned"
        /\ last_quote = quote_call.pre_last_quote
        /\ history = quote_call.pre_history

\* C7 witness: a negative quote arrives after an accepted update.
C7_Witness ==
    /\ NegativeUpdate
    /\ quote_call.printed
    /\ Len(history) > 0
    /\ last_quote.price > 0

\* C8: in every state reachable by any sequence of update_last_quote calls,
\* neither last_quote nor any quote in history has a negative price, the
\* constructor's initial quote included.  (The constructor checks nothing:
\* refuted by an asset built from a negative quote.)
C8_NoNegativePriceStored ==
    /\ last_quote.price >= 0
    /\ \A i \in 1 .. Len(history) : history[i].price >= 0

\* ------------------------------------------------------------------------
\* Properties of List
\* ------------------------------------------------------------------------

\* The last call was list[i] or list[i] = v.
ItemAccess == list_call.op \in {"__getitem__", "__setitem__"}

\* The index of the last item access lies outside 0 .. n-1.
OutOfRange == list_call.args[1] < 0 \/ list_call.args[1] >= list_call.pre_count

\* C9: on a List of length n, list[i] and list[i] = v raise IndexError for
\* every i >= n and every i < 0, the failed assignment leaves the contents
\* unchanged, and for 0 <= i < n list[i] returns the i-th element in
\* insertion order.
C9_ItemAccessChecksBounds ==
    /\ (ItemAccess /\ OutOfRange) =>
          /\ list_call.raised = "IndexError"
          /\ elements = list_call.pre_elements
          /\ count = list_call.pre_count
    /\ (list_call.op = "__getitem__" /\ ~OutOfRange) =>
          /\ list_call.raised = "none"
          /\ list_call.result = <<ideal[list_call.args[1] + 1]>>

\* C9 witness: an assignment just past the end (index = n) of a List that
\* holds two elements.
C9_Witness ==
    /\ list_call.op = "__setitem__"
    /\ list_call.args[1] = list_call.pre_count
    /\ list_call.raised = "IndexError"
    /\ count = 2
    /\ ideal = <<2, 1>>

\* C10: for any two List objects a and b, a + b returns a new List whose
\* elements are those of a followed by those of b (len = len(a) + len(b)),
\* and leaves a and b unchanged.  (__add__ is `pass` and returns None.)
C10_AddConcatenates ==
    (list_call.op = "__add__" /\ IsList(list_call.args[1])) =>
        /\ list_call.raised = "none"
        /\ Len(list_call.result) = 1
        /\ list_call.result[1].count = list_call.pre_count + list_call.args[1].count
        /\ \A i \in 0 .. list_call.pre_count - 1 :
              DictGet(list_call.result[1].elements, i) = ideal[i + 1]
        /\ \A i \in 0 .. list_call.args[1].count - 1 :
              DictGet(list_call.result[1].elements, list_call.pre_count + i)
                 = DictGet(list_call.args[1].elements, i)
        /\ elements = list_call.pre_elements
        /\ count = list_call.pre_count

\* C11: adding a List and an operand that is not a List (e.g. a built-in
\* list) raises TypeError.  (__add__ is `pass`: nothing is raised.)
C11_AddRejectsNonList ==
    (list_call.op = "__add__" /\ ~IsList(list_call.args[1]))
        => list_call.raised = "TypeError"

\* C12: after any sequence of append, remove, pop and item assignment,
\* len(list) equals the number of appends minus the number of pops that
\* returned an element and removes that found their value; it is never
\* negative.
C12_LenCountsAppendsMinusRemovals ==
    /\ count = appends - pops - removes
    /\ count >= 0
    /\ list_call.op = "__len__" => list_call.result = <<appends - pops - removes>>

\* C12 witness: len() is asked after four appends, a pop that returned and
\* a remove that found its value.
C12_Witness ==
    /\ list_call.op = "__len__"
    /\ list_call.result = <<2>>
    /\ appends = 4 /\ pops = 1 /\ removes = 1

\* The text the claim describes, built from the right: the elements so far,
\* then ", " and the next one.
RECURSIVE Listing(_)
Listing(seq) ==
    IF Len(seq) = 0 THEN ""
    ELSE IF Len(seq) = 1 THEN ToString(seq[1])
    ELSE Listing(SubSeq(seq, 1, Len(seq) - 1)) \o ", " \o ToString(seq[Len(seq)])

\* C13: str(list) is '[' followed by the str() of the elements at indices
\* 0..len-1 in index order separated by ', ' and then ']' ('[]' when empty),
\* after any sequence of append, remove, pop and item assignment.
C13_StrListsElementsInIndexOrder ==
    list_call.op = "__str__" =>
        /\ list_call.raised = "none"
        /\ list_call.result = <<"[" \o Listing(ideal) \o "]">>
        /\ (count = 0) => list_call.result = <<"[]">>

\* C13 witness: str() of a three-element list that went through a removal
\* and an assignment.
C13_Witness ==
    /\ list_call.op = "__str__"
    /\ list_call.result = <<"[2, 1, 2]">>
    /\ removes = 1

\* an item assignment at an index inside the list
ValidAssignment ==
    /\ list_call.op = "__setitem__"
    /\ 0 <= list_call.args[1]
    /\ list_call.args[1] < list_call.pre_count

\* C14: for an index i with 0 <= i < n, after list[i] = v a read of list[i]
\* returns v, every other index still holds the value it held before, and
\* the length is unchanged.
C14_AssignmentReplacesOneItem ==
    ValidAssignment =>
        /\ list_call.raised = "none"
        /\ count = list_call.pre_count
        /\ list_call.args[1] < count
        /\ DictHas(elements, list_call.args[1])
        /\ DictGet(elements, list_call.args[1]) = list_call.args[2]
        /\ \A j \in (0 .. list_call.pre_count - 1) \ {list_call.args[1]} :
              /\ DictHas(list_call.pre_elements, j)
              /\ DictHas(elements, j)
              /\ DictGet(elements, j) = DictGet(list_call.pre_elements, j)

\* C14 witness: the middle item of a three-element list was replaced by a
\* different value.
C14_Witness ==
    /\ ValidAssignment
    /\ list_call.pre_count = 3
    /\ list_call.args[1] = 1
    /\ DictGet(list_call.pre_elements, 1) # list_call.args[2]
    /\ DictGet(elements, 1) = list_call.args[2]

\* ------------------------------------------------------------------------
\* Properties of the calculator and the asset utilities
\* ------------------------------------------------------------------------

\* The types whose instances are ints / floats.
IntTypes == {"int", "bool"}
FloatTypes == {"float"}

\* C15: CalculatorPythonNative.add(a, b) returns a + b when both operands
\* are int or both are float, and raises TypeError for every other
\* combination of operand types, one int with one float included.
C15_AddNeedsTwoIntsOrTwoFloats ==
    calc_call.op = "add" =>
        LET a == calc_call.a
            b == calc_call.b
        IN  IF a.type \in IntTypes /\ b.type \in IntTypes
            THEN /\ calc_call.raised = "none"
                 /\ calc_call.result.type = "int"
                 /\ calc_call.result.value = a.value + b.value
            ELSE IF a.type \in FloatTypes /\ b.type \in FloatTypes
            THEN /\ calc_call.raised = "none"
                 /\ calc_call.result.type = "float"
                 /\ calc_call.result.value = a.value + b.value
            ELSE calc_call.raised = "TypeError"

\* C15 witness: add(5, 10.0), one int with one float, raised TypeError.
C15_Witness ==
    /\ calc_call.op = "add"
    /\ calc_call.a = PyInt(5)
    /\ calc_call.b = PyFloat(10 * ONE)
    /\ calc_call.raised = "TypeError"

\* The last call passed one list of prices.
PriceListCall ==
    /\ return_call.op = "calculate_return"
    /\ Len(return_call.args) = 1
    /\ IsListArg(return_call.args[1])

\* The prices of that call.
CallPrices == return_call.args[1].list

\* How far initial * (1 + r), or initial * exp(r), may be from the final
\* price when r is the return rounded to the model's grain: 1e-3 on a price
\* of about 100.
ReturnTol == 1000

\* r is the return of the given kind from initial to final: growing the
\* initial price by r gives the final price.
IsReturnBetween(r, initial, final, method) ==
    IF method = "simple"
    THEN Abs(FMul(initial, ONE + r) - final) <= ReturnTol
    ELSE Abs(FMul(initial, FExp(r)) - final) <= ReturnTol

\* C16 as stated: one list of n >= 2 prices and method 'simple' or 'log'
\* gives a list of exactly n - 1 returns, the i-th being the return between
\* prices[i] and prices[i+1]; a list of fewer than 2 prices raises ValueError.
C16_ListGivesConsecutiveReturns ==
    (PriceListCall /\ return_call.method \in {"simple", "log"}) =>
        IF Len(CallPrices) < 2
        THEN return_call.raised = "ValueError"
        ELSE /\ return_call.raised = "none"
             /\ Len(return_call.result) = Len(CallPrices) - 1
             /\ \A i \in 1 .. Len(CallPrices) - 1 :
                   IsReturnBetween(return_call.result[i], CallPrices[i],
                                   CallPrices[i + 1], return_call.method)

\* C16 amended: the same for a list of n >= 2 strictly positive prices.
C16_PositiveListGivesConsecutiveReturns ==
    (/\ PriceListCall
     /\ return_call.method \in {"simple", "log"}
     /\ \A i \in 1 .. Len(CallPrices) : CallPrices[i] > 0) =>
        IF Len(CallPrices) < 2
        THEN return_call.raised = "ValueError"
        ELSE /\ return_call.raised = "none"
             /\ Len(return_call.result) = Len(CallPrices) - 1
             /\ \A i \in 1 .. Len(CallPrices) - 1 :
                   IsReturnBetween(return_call.result[i], CallPrices[i],
                                   CallPrices[i + 1], return_call.method)

\* C16 witness: the first three prices of the script's price_series,
\* [100, 105, 103], with method='log' gave two returns, 0.0488 and -0.0192
\* to four places.
C16_Witness ==
    /\ PriceListCall
    /\ return_call.method = "log"
    /\ CallPrices = <<100 * ONE, 105 * ONE, 103 * ONE>>
    /\ return_call.raised = "none"
    /\ Len(return_call.result) = 2
    /\ Abs(return_call.result[1] - 48790) <= 10
    /\ Abs(return_call.result[2] + 19231) <= 10

\* v is the P/E ratio the claim gives for price and eps: price / eps (v times
\* eps gives the price back, up to rounding) when eps > 0, and 0 when eps is
\* None or not positive.
IsPeRatio(v, price, eps) ==
    IF eps # <<>> /\ eps[1] > 0
    THEN Close(FMul(v, eps[1]), price)
    ELSE v = 0

\* C17: Equity.calculate_pe_ratio returns price / eps when eps > 0 and 0 when
\* eps is None or eps <= 0, never dividing by zero, and the pe attribute set
\* at construction equals that result.
C17_PeRatioGuardsEps ==
    /\ equity_call.op \in {"__init__", "calculate_pe_ratio"} => equity_call.raised = "none"
    /\ equity.constructed => IsPeRatio(equity.pe, equity.price, equity.eps)
    /\ equity_call.op = "calculate_pe_ratio" =>
          /\ IsPeRatio(equity_call.result, equity.price, equity.eps)
          /\ equity.pe = equity_call.result

\* C17 witness: Equity(230, 6.1) answered calculate_pe_ratio() with 37.70,
\* the value of its pe attribute.
C17_Witness ==
    /\ equity_call.op = "calculate_pe_ratio"
    /\ equity.constructed
    /\ equity.price = 230 * ONE
    /\ equity.eps = <<(61 * ONE) \div 10>>
    /\ Abs(equity_call.result - 37704918) <= 1
    /\ equity.pe = equity_call.result

\* ------------------------------------------------------------------------
\* Limits of the option prices
\* ------------------------------------------------------------------------

\* How close to its limit a price is taken to be once the parameter is at
\* TinyT or BigSigma: one cent.  (The prices of s3_extended, which divide by
\* sigma * sqrt(T), are within a fifth of that.)
LimitTol == ONE \div 100

Max(a, b) == IF a > b THEN a ELSE b

\* C18: as T tends to 0 from above with the other parameters fixed,
\* Call.price() tends to max(S - K, 0) and Put.price() tends to max(K - S, 0):
\* at T = TinyT the prices are within LimitTol of the intrinsic values.
C18_PriceTendsToIntrinsicValue ==
    /\ (Last("call", "price") /\ call.T = TinyT) =>
          Abs(ret.v - Max(call.S - call.K, 0)) <= LimitTol
    /\ (Last("put", "price") /\ put.T = TinyT) =>
          Abs(ret.v - Max(put.K - put.S, 0)) <= LimitTol

\* C19: as sigma tends to infinity with the other parameters fixed, for any
\* T > 0, Call.price() tends to S and Put.price() tends to K * exp(-r * T):
\* at sigma = BigSigma the prices are within LimitTol of those values.
C19_PriceTendsToDeepVolatilityLimit ==
    /\ (Last("call", "price") /\ call.sigma = BigSigma) =>
          Abs(ret.v - call.S) <= LimitTol
    /\ (Last("put", "price") /\ put.sigma = BigSigma) =>
          Abs(ret.v - DiscountedStrike(put)) <= LimitTol

\* ------------------------------------------------------------------------
\* The script's own example
\* ------------------------------------------------------------------------

\* The parameters of __main__: S=200, K=250, r=0.05, T=1.0, sigma=0.15.
MainExample == Option(200 * ONE, 250 * ONE, ONE \div 20, ONE, (15 * ONE) \div 100)

\* "Approximately", for a price quoted to two decimals as the script prints
\* it: within half a cent.
HalfCent == ONE \div 200

\* C20 as stated: for S=200, K=250, r=0.05, T=1.0, sigma=0.15 the call price
\* computed by Call.price() is approximately 8.60.
C20_ExampleCallPriceIs860 ==
    (Last("call", "price") /\ call = MainExample) =>
        Abs(ret.v - (860 * ONE) \div 100) <= HalfCent

\* C20 amended: for those parameters the call price computed by Call.price()
\* is approximately 2.01.
C20_ExampleCallPriceIs201 ==
    (Last("call", "price") /\ call = MainExample) =>
        Abs(ret.v - (201 * ONE) \div 100) <= HalfCent

\* C20 witness: Call.price() was called on the script's example and returned
\* a value between 2.005 and 2.015.
C20_Witness ==
    /\ Last("call", "price")
    /\ call = MainExample
    /\ ret.v >= 2005000
    /\ ret.v <= 2015000

\* ------------------------------------------------------------------------
\* Properties of the script
\* ------------------------------------------------------------------------

\* C21: executing the top-level statements of s3_extended.py in order runs
\* to the end of the file, reaching the update_last_quote demonstration,
\* without any uncaught exception: no run is ended by an exception.
C21_ScriptRunsWithoutUncaughtException == uncaught = "none"

\* ------------------------------------------------------------------------
\* Properties of List: structure, remove, pop, get_index
\* ------------------------------------------------------------------------

\* The keys of the dict d are exactly 0 .. n - 1.
WellKeyed(d, n) ==
    /\ Len(d) = n
    /\ \A k \in 0 .. n - 1 : DictHas(d, k)

\* The dict d iterates in ascending key order.
Ascending(d) == \A i \in 1 .. Len(d) - 1 : d[i][1] < d[i + 1][1]

\* The elements of a well-keyed dict in index order.
Contents(d, n) == [i \in 1 .. n |-> DictGet(d, i - 1)]

Occurs(seq, v) == \E i \in 1 .. Len(seq) : seq[i] = v

\* The first position of v in seq.
FirstAt(seq, v) ==
    CHOOSE i \in 1 .. Len(seq) : seq[i] = v /\ \A j \in 1 .. i - 1 : seq[j] # v

\* C22: in every state reachable by append, remove, pop and item assignment,
\* failed calls included, the key set of _elements is exactly
\* {0, ..., _count - 1} and the dict iterates in ascending key order.
C22_KeysAreZeroToCountAscending ==
    /\ WellKeyed(elements, count)
    /\ Ascending(elements)

\* C22 witness: a pop that failed with IndexError on a two-element list that
\* has been through a removal (which re-inserted keys) and a successful pop.
C22_Witness ==
    /\ list_call.op = "pop"
    /\ list_call.raised = "IndexError"
    /\ removes >= 1
    /\ pops >= 1
    /\ count = 2
    /\ elements = <<<<0, elements[1][2]>>, <<1, elements[2][2]>>>>

\* C23: List.remove(value) deletes exactly the first element equal to value,
\* shifts every later element down by one index keeping the order, and
\* decrements the length by one; when no element equals value the list is
\* left unchanged and no error is raised.
C23_RemoveDeletesFirstMatch ==
    list_call.op = "remove" =>
        LET before == Contents(list_call.pre_elements, list_call.pre_count)
            value  == list_call.args[1]
        IN  /\ list_call.raised = "none"
            /\ IF Occurs(before, value)
               THEN /\ count = list_call.pre_count - 1
                    /\ WellKeyed(elements, count)
                    /\ Contents(elements, count) = RemoveAt(before, FirstAt(before, value))
               ELSE /\ count = list_call.pre_count
                    /\ elements = list_call.pre_elements

\* C23 witness: remove(1) on [1, 2, 1] left [2, 1].
C23_Witness ==
    /\ list_call.op = "remove"
    /\ list_call.args = <<1>>
    /\ list_call.pre_count = 3
    /\ Contents(list_call.pre_elements, 3) = <<1, 2, 1>>
    /\ count = 2
    /\ Contents(elements, 2) = <<2, 1>>

\* C24: List.pop(index) with 0 <= index < len returns the element at index
\* and leaves the remaining elements in their previous order at indices
\* 0..len-2; with index < 0 or index >= len it raises IndexError and leaves
\* the elements and the length unchanged.
C24_PopReturnsItemOrRaises ==
    list_call.op = "pop" =>
        LET before == Contents(list_call.pre_elements, list_call.pre_count)
            index  == list_call.args[1]
        IN  IF 0 <= index /\ index < list_call.pre_count
            THEN /\ list_call.raised = "none"
                 /\ list_call.result = <<before[index + 1]>>
                 /\ count = list_call.pre_count - 1
                 /\ WellKeyed(elements, count)
                 /\ Contents(elements, count) = RemoveAt(before, index + 1)
            ELSE /\ list_call.raised = "IndexError"
                 /\ count = list_call.pre_count
                 /\ elements = list_call.pre_elements

\* C24 witness: pop(1) on [1, 2, 1] returned 2 and left [1, 1].
C24_Witness ==
    /\ list_call.op = "pop"
    /\ list_call.args = <<1>>
    /\ list_call.pre_count = 3
    /\ Contents(list_call.pre_elements, 3) = <<1, 2, 1>>
    /\ list_call.result = <<2>>
    /\ count = 2
    /\ Contents(elements, 2) = <<1, 1>>

\* C25: List.get_index(value) returns the smallest index i with
\* list[i] == value when there is one and -1 otherwise, after any sequence of
\* append, remove, pop and item assignment, and does not modify the list.
C25_GetIndexReturnsSmallestIndex ==
    list_call.op = "get_index" =>
        LET before == Contents(list_call.pre_elements, list_call.pre_count)
            value  == list_call.args[1]
        IN  /\ list_call.raised = "none"
            /\ list_call.result =
                  <<IF Occurs(before, value) THEN FirstAt(before, value) - 1 ELSE 0 - 1>>
            /\ count = list_call.pre_count
            /\ elements = list_call.pre_elements

\* C25 witness: after a removal re-inserted keys, get_index(2) on [1, 2, 2]
\* returned 1.
C25_Witness ==
    /\ list_call.op = "get_index"
    /\ list_call.args = <<2>>
    /\ removes >= 1
    /\ count = 3
    /\ Contents(elements, 3) = <<1, 2, 2>>
    /\ list_call.result = <<1>>

\* ------------------------------------------------------------------------
\* Properties of the bank accounts
\* ------------------------------------------------------------------------

\* C26: for an account of either class created with a non-negative initial
\* balance, the balance is non-negative in every state reachable by deposit
\* and withdraw calls with arbitrary amounts.
C26_BalanceNeverNegative ==
    account.cls \in AccountClasses => account.balance >= 0

\* C26 witness: a withdrawal of more than the balance has just been refused
\* on an account that an earlier withdrawal had emptied.
C26_Witness ==
    /\ bank_call.op = "withdraw"
    /\ bank_call.amount > bank_call.pre.balance
    /\ ~bank_call.result
    /\ account.balance = 0
    /\ account.initial_balance > 0
    /\ Len(bank_log) >= 1

\* C27: deposit(amount) returns False exactly when amount <= 0 and
\* withdraw(amount) returns False exactly when amount <= 0 or
\* amount > balance; a call that returns False leaves both the balance and
\* the transaction history unchanged.
C27_RefusedCallsChangeNothing ==
    /\ bank_call.op = "deposit" => (~bank_call.result <=> bank_call.amount <= 0)
    /\ bank_call.op = "withdraw" =>
          (~bank_call.result <=>
              (bank_call.amount <= 0 \/ bank_call.amount > bank_call.pre.balance))
    /\ (bank_call.op \in {"deposit", "withdraw"} /\ ~bank_call.result) =>
          /\ account.balance = bank_call.pre.balance
          /\ account.history = bank_call.pre.history

\* C27 witness: deposit(0) returned False on an account with two recorded
\* transactions.
C27_Witness ==
    /\ bank_call.op = "deposit"
    /\ bank_call.amount = 0
    /\ ~bank_call.result
    /\ Len(account.history) = 2

\* The text the classes record for a call.
EntryOf(entry) ==
    IF entry.op = "deposit"
    THEN "Deposit of " \o ToString(entry.amount)
    ELSE "Withdrawal of " \o ToString(entry.amount)

\* Deposits minus withdrawals over a log of calls.
RECURSIVE NetOf(_)
NetOf(log) ==
    IF Len(log) = 0 THEN 0
    ELSE (IF log[1].op = "deposit" THEN log[1].amount ELSE 0 - log[1].amount)
            + NetOf(Tail(log))

\* C28: after any sequence of deposit and withdraw calls the transaction
\* history has exactly one entry per call that returned True, in call order,
\* and the balance equals the initial balance plus the recorded deposit
\* amounts minus the recorded withdrawal amounts.
C28_HistoryAccountsForBalance ==
    account.cls \in AccountClasses =>
        /\ Len(account.history) = Len(bank_log)
        /\ \A i \in 1 .. Len(bank_log) : account.history[i] = EntryOf(bank_log[i])
        /\ account.balance = account.initial_balance + NetOf(bank_log)

\* C28 witness: deposit(500), withdraw(1500) and deposit(100) succeeded on a
\* BankAccount opened with 1000 and left three entries and a balance of 100.
C28_Witness ==
    /\ account.cls = "BankAccount"
    /\ account.initial_balance = 1000
    /\ account.history = <<"Deposit of 500", "Withdrawal of 1500", "Deposit of 100">>
    /\ account.balance = 100
====
